---- MODULE Spec2Model ----
(***************************************************************************)
(* ApacheDvsni (letsencrypt_apache/dvsni.py): solving a batch of DVSNI     *)
(* challenges inside the Apache configurator.                              *)
(*                                                                         *)
(* perform() is modelled step by step, one action per collaborator call,   *)
(* each with its failing alternative (an exception that perform() does not *)
(* catch).  The configurator, its parser, its reverter and the address     *)
(* type live outside dvsni.py; they are modelled from the specification.   *)
(***************************************************************************)
EXTENDS Integers, Sequences, FiniteSets, TLC

\* ------------------------------------------------------------------ bounds
MaxLen == 2
MaxRuns == 2

\* --------------------------------------------------------------- addresses
\* A port is a value with a Python type: the vhost addresses parsed from the
\* configuration hold strings, config.dvsni_port is the number the code
\* passes through str() where it needs a string.
StrPort(d) == [ty |-> "str", digits |-> d]
IntPort(d) == [ty |-> "int", digits |-> d]

\* self.configurator.config.dvsni_port
dvsni_port == IntPort("5001")

\* str(port)
str(p) == StrPort(p.digits)

\* obj.Addr((host, port))
Addr(h, p) == [host |-> h, port |-> p]

\* Addr.get_addr()
get_addr(a) == a.host

\* Addr.get_sni_addr(port)
get_sni_addr(a, p) == Addr(a.host, p)

\* str(Addr): "host:port", the same text for a string and a number port
AddrStr(a) == [host |-> a.host, digits |-> a.port.digits]

\* --------------------------------------------------------------- challenges
AccountKey == "K1"

Chall(d, t) == [domain |-> d, token |-> t, account_key |-> AccountKey]

AllChalls ==
    { Chall("a.example", "T1"), Chall("b.example", "T2"),
      Chall("c.example", "T3"), Chall("d.example", "T4"),
      Chall("x.example", "T5") }

\* achall.gen_response(account_key).z_domain: a digest of token and key
ZDomain(token, key) ==
    CASE token = "T1" /\ key = "K1" -> "z-7f3a.acme.invalid"
      [] token = "T2" /\ key = "K1" -> "z-91c4.acme.invalid"
      [] token = "T3" /\ key = "K1" -> "z-0be2.acme.invalid"
      [] token = "T4" /\ key = "K1" -> "z-d56f.acme.invalid"
      [] token = "T5" /\ key = "K1" -> "z-a208.acme.invalid"
      [] OTHER -> "z-none.acme.invalid"

\* Dvsni.get_cert_path(achall), Dvsni.get_key_path(achall)
get_cert_path(achall) ==
    CASE achall.token = "T1" -> "work/T1.crt"
      [] achall.token = "T2" -> "work/T2.crt"
      [] achall.token = "T3" -> "work/T3.crt"
      [] achall.token = "T4" -> "work/T4.crt"
      [] OTHER -> "work/T5.crt"

get_key_path(achall) ==
    CASE achall.token = "T1" -> "work/T1.pem"
      [] achall.token = "T2" -> "work/T2.pem"
      [] achall.token = "T3" -> "work/T3.pem"
      [] achall.token = "T4" -> "work/T4.pem"
      [] OTHER -> "work/T5.pem"

\* The response descriptor _setup_challenge_cert returns for a challenge
Response(achall) ==
    [z_domain |-> ZDomain(achall.token, achall.account_key),
     cert |-> get_cert_path(achall),
     key |-> get_key_path(achall)]

\* ------------------------------------------------------- the vhost registry
NoVhost == [found |-> FALSE, addrs |-> {}]

\* configurator.choose_vhost(domain): the virtual server of a domain
choose_vhost(domain) ==
    CASE domain \in {"a.example", "b.example"} ->
           [found |-> TRUE, addrs |-> { Addr("10.0.0.5", StrPort("443")) }]
      [] domain = "c.example" ->
           [found |-> TRUE,
            addrs |-> { Addr("10.0.0.1", StrPort("80")),
                        Addr("10.0.0.1", StrPort("443")),
                        Addr("_default_", StrPort("80")) }]
      [] domain = "d.example" -> [found |-> TRUE, addrs |-> {}]
      [] OTHER -> NoVhost

\* ------------------------------------------------------------------- text
\* Text is a sequence of tokens; a token is a piece of line text or one
\* character of a line terminator.
Tok(k, s, a) == [k |-> k, s |-> s, a |-> a]
Txt(s) == Tok("text", s, <<>>)
LF == Tok("LF", "", <<>>)
CR == Tok("CR", "", <<>>)

\* os.linesep of the platforms
Lineseps == { <<LF>>, <<CR, LF>> }

\* the placeholders of VHOST_TEMPLATE
Hole(name) == Tok("hole", name, <<>>)

VHOST_TEMPLATE ==
    << Txt("<VirtualHost "), Hole("vhost"), Txt(">"), LF,
       Txt("    ServerName "), Hole("server_name"), LF,
       Txt("    UseCanonicalName on"), LF,
       Txt("    SSLStrictSNIVHostCheck on"), LF,
       LF,
       Txt("    LimitRequestBody 1048576"), LF,
       LF,
       Txt("    Include "), Hole("ssl_options_conf_path"), LF,
       Txt("    SSLCertificateFile "), Hole("cert_path"), LF,
       Txt("    SSLCertificateKeyFile "), Hole("key_path"), LF,
       LF,
       Txt("    DocumentRoot "), Hole("document_root"), LF,
       Txt("</VirtualHost>"), LF,
       LF >>

\* self.configurator.mod_ssl_conf
mod_ssl_conf == "conf/options-ssl.conf"

\* os.path.join(config.work_dir, "dvsni_page/")
document_root == "work/dvsni_page/"

\* self.challenge_conf
challenge_conf == "root/le_dvsni_cert_challenge.conf"

\* parser.loc["default"]
main_config == "root/apache2.conf"

\* text.replace(old, new) for a one-token old: every token takes Len(new)
\* slots, an old token filling them with new and any other token only the
\* first, and the unfilled slots are dropped
Replace(text, old, new) ==
    IF new = <<>> THEN SelectSeq(text, LAMBDA t : t # old)
    ELSE LET pad == Tok("pad", "", <<>>)
             slots == [j \in 1..(Len(text) * Len(new)) |->
                        LET tok == text[((j - 1) \div Len(new)) + 1]
                            r == ((j - 1) % Len(new)) + 1
                        IN IF tok = old THEN new[r]
                           ELSE IF r = 1 THEN tok ELSE pad]
         IN SelectSeq(slots, LAMBDA t : t # pad)

\* VHOST_TEMPLATE.format(...): every placeholder becomes its value
Format(template, vals) ==
    [n \in 1..Len(template) |->
        IF template[n].k = "hole" THEN vals[template[n].s] ELSE template[n]]

\* the orders in which a set can be iterated
Orders(S) ==
    { o \in [1..Cardinality(S) -> S] :
        \A m, n \in 1..Cardinality(S) : m # n => o[m] # o[n] }

\* " ".join(str(i) for i in ip_addrs), ip_addrs iterated in the order o
Join(o) == Tok("addrs", "", [n \in 1..Len(o) |-> AddrStr(o[n])])

\* a _get_config_text() with the certificate and the key path exchanged
_get_config_text_swapped(achall, o, linesep) ==
    Replace(
        Format(VHOST_TEMPLATE,
               [vhost |-> Join(o),
                server_name |-> Txt(ZDomain(achall.token, achall.account_key)),
                ssl_options_conf_path |-> Txt(mod_ssl_conf),
                cert_path |-> Txt(get_key_path(achall)),
                key_path |-> Txt(get_cert_path(achall)),
                document_root |-> Txt(document_root)]),
        LF, linesep)

\* ApacheDvsni._get_config_text(achall, ip_addrs)
_get_config_text(achall, o, linesep) ==
    Replace(
        Format(VHOST_TEMPLATE,
               [vhost |-> Join(o),
                server_name |-> Txt(ZDomain(achall.token, achall.account_key)),
                ssl_options_conf_path |-> Txt(mod_ssl_conf),
                cert_path |-> Txt(get_cert_path(achall)),
                key_path |-> Txt(get_key_path(achall)),
                document_root |-> Txt(document_root)]),
        LF, linesep)

RECURSIVE AddAddrs(_, _)
\* the loop of get_dvsni_addrs over vhost.addrs
AddAddrs(addrs, acc) ==
    IF addrs = {} THEN acc
    ELSE LET addr == CHOOSE a \in addrs : TRUE
             default_addr == Addr("*", str(dvsni_port))
         IN AddAddrs(addrs \ {addr},
                IF "_default_" = get_addr(addr)
                THEN acc \cup {default_addr}
                ELSE acc \cup {get_sni_addr(addr, dvsni_port)})

\* a get_dvsni_addrs() without the "_default_" branch
get_dvsni_addrs_no_default(vhost) ==
    { get_sni_addr(a, dvsni_port) : a \in vhost.addrs }

\* a get_dvsni_addrs() that falls back to the wildcard for an empty vhost
get_dvsni_addrs_fallback(vhost) ==
    IF vhost.addrs = {} THEN { Addr("*", str(dvsni_port)) }
    ELSE AddAddrs(vhost.addrs, {})

\* ApacheDvsni.get_dvsni_addrs(achall), given the vhost that was chosen
get_dvsni_addrs(vhost) == AddAddrs(vhost.addrs, {})


\* --------------------------------------------------------------- the state
\* a directive of the Apache configuration, in the file that holds it
Dir(file, name, arg) == [file |-> file, name |-> name, arg |-> arg]

\* parser.case_i(name): the name in any letter case
case_i(name, other) ==
    LET lower(n) == CASE n \in {"Include", "include", "INCLUDE"} -> "include"
                      [] n \in {"Listen", "listen"} -> "listen"
                      [] OTHER -> n
    IN lower(name) = lower(other)

\* parser.find_dir(case_i(name), arg): the matching directives of a config
find_dir(dirs, name, arg) ==
    SelectSeq(dirs, LAMBDA d : case_i(name, d.name) /\ d.arg = arg)

\* parser.add_dir(aug_path, name, arg): append the directive to that file
add_dir(dirs, file, name, arg) == Append(dirs, Dir(file, name, arg))

Paths ==
    {challenge_conf} \cup { get_cert_path(c) : c \in AllChalls }
                     \cup { get_key_path(c) : c \in AllChalls }

NoFile == [exists |-> FALSE, text |-> <<>>]
File(text) == [exists |-> TRUE, text |-> text]

\* what a text-mode file holds after write(text): "\n" becomes os.linesep
TextWrite(text, linesep) == Replace(text, LF, linesep)

\* the batches a caller can hand to the constructor
RECURSIVE Batches(_)
Batches(n) ==
    IF n = 0 THEN { <<>> }
    ELSE Batches(n - 1) \cup
         { Append(b, c) : b \in { x \in Batches(n - 1) : Len(x) = n - 1 },
                          c \in AllChalls }

Distinct(b) == \A m, n \in 1..Len(b) : m # n => b[m] # b[n]

Call(op, n, s, flag) == [op |-> op, n |-> n, s |-> s, flag |-> flag]

\* the configurations a run can start from: (saved on disk, live in memory)
InitConfigs ==
    { <<  <<>>, <<>>  >>,
      <<  << Dir(main_config, "include", challenge_conf) >>,
          << Dir(main_config, "include", challenge_conf) >>  >>,
      <<  << Dir(main_config, "Include", "root/other.conf") >>,
          << Dir(main_config, "Include", "root/other.conf"),
             Dir(main_config, "ServerTokens", "Prod") >>  >> }

Cfg(dirs, https, sni) == [dirs |-> dirs, https |-> https, sni |-> sni]

VARIABLES
    linesep,       \* os.linesep of the platform
    cfg,           \* the live (in-memory) configuration of the configurator
    saved,         \* the configuration as last saved
    files,         \* the file system: path -> file
    journal,       \* reverter: files registered as created, not yet committed
    checkpoints,   \* reverter: the named checkpoints
    achalls,       \* self.achalls
    pc,            \* where perform() is
    idx,           \* the position of the running for loop
    responses,     \* perform: responses
    dvsni_addrs,   \* _mod_config: dvsni_addrs
    achall_addrs,  \* _mod_config: achall_addrs, one set per challenge done
    config_text,   \* _mod_config: config_text
    result,        \* what perform() returned
    err,           \* the exception perform() raised
    calls,         \* the collaborator calls of this run, in order
    sni_arg,       \* the argument of make_addrs_sni_ready
    atSaved,       \* configuration and files as they were when save() returned
    runs           \* the number of batches handed in so far

vars == << linesep, cfg, saved, files, journal, checkpoints, achalls, pc, idx,
           responses, dvsni_addrs, achall_addrs, config_text, result, err,
           calls, sni_arg, atSaved, runs >>

NoResult == [returned |-> FALSE, list |-> <<>>]
Returned(l) == [returned |-> TRUE, list |-> l]

NoSnapshot == [valid |-> FALSE, cfg |-> Cfg(<<>>, FALSE, {}),
               files |-> [p \in Paths |-> NoFile]]

platform == << linesep >>
config == << cfg, saved >>
reverter == << journal, checkpoints >>
locals == << idx, responses, dvsni_addrs, achall_addrs, config_text, sni_arg >>

Init ==
    /\ linesep \in Lineseps
    /\ \E ic \in InitConfigs :
          /\ saved = Cfg(ic[1], FALSE, {})
          /\ cfg = Cfg(ic[2], FALSE, {})
    /\ files = [p \in Paths |-> NoFile]
    /\ journal = {}
    /\ checkpoints = <<>>
    /\ achalls = <<>>
    /\ pc = "idle"
    /\ idx = 0
    /\ responses = <<>>
    /\ dvsni_addrs = {}
    /\ achall_addrs = <<>>
    /\ config_text = <<>>
    /\ result = NoResult
    /\ err = "none"
    /\ calls = <<>>
    /\ sni_arg = {}
    /\ atSaved = NoSnapshot
    /\ runs = 0

\* a _mod_config() that keeps the last challenge's addresses only
update_replacing(acc, addrs) == addrs

\* _mod_config(): dvsni_addrs.update(achall_addrs)
update(acc, addrs) == acc \cup addrs

\* _mod_config(): "<IfModule mod_ssl.c>\n"
open_guard == << Txt("<IfModule mod_ssl.c>"), LF >>

\* a _mod_config() that closes the guard with the wrong tag
close_guard_wrong == << Txt("</VirtualHost>"), LF >>

\* _mod_config(): "</IfModule>\n"
close_guard == << Txt("</IfModule>"), LF >>

\* an include check that searches for the main file's path
include_absent_wrong_path(dirs) ==
    Len(find_dir(dirs, "Include", main_config)) = 0

\* _conf_include_check(): len(find_dir(case_i("Include"), challenge_conf)) == 0
include_absent(dirs) ==
    Len(find_dir(dirs, "Include", challenge_conf)) = 0

\* a perform() without the early return
NoAchalls_never(batch) == FALSE

\* perform(): "if not self.achalls"
NoAchalls(batch) == batch = <<>>

\* a perform() that inserts each response at the front
responses_prepend(list, r) == << r >> \o list

\* perform(): responses.append(...)
responses_append(list, r) == Append(list, r)

\* a perform() that starts over when a call raised
Raise_retrying(e) ==
    /\ pc' = "perform"
    /\ err' = e
    /\ result' = NoResult

\* a perform() that catches the exception and returns what it has
Raise_caught(e) ==
    /\ pc' = "failed"
    /\ err' = e
    /\ result' = Returned(responses)

\* an exception leaves perform(): nothing is returned
Raise(e) ==
    /\ pc' = "failed"
    /\ err' = e
    /\ result' = NoResult

\* ApacheDvsni(configurator) with a batch added: a new run begins
__init__ ==
    /\ pc \in {"idle", "done"}
    /\ runs < MaxRuns
    /\ \E b \in Batches(MaxLen) :
          /\ Distinct(b)
          /\ achalls' = b
    /\ pc' = "perform"
    /\ runs' = runs + 1
    /\ idx' = 0
    /\ responses' = <<>>
    /\ dvsni_addrs' = {}
    /\ achall_addrs' = <<>>
    /\ config_text' = <<>>
    /\ result' = NoResult
    /\ err' = "none"
    /\ calls' = <<>>
    /\ sni_arg' = {}
    /\ atSaved' = NoSnapshot
    /\ UNCHANGED << platform, config, files, reverter >>

\* perform(): if not self.achalls: return []
perform_empty ==
    /\ pc = "perform"
    /\ NoAchalls(achalls)
    /\ pc' = "done"
    /\ result' = Returned(<<>>)
    /\ UNCHANGED << platform, config, files, reverter, achalls, locals, err,
                    calls, atSaved, runs >>

\* perform(): self.configurator.save()
perform_save ==
    /\ pc = "perform"
    /\ ~NoAchalls(achalls)
    /\ calls' = Append(calls, Call("save", 0, "", FALSE))
    /\ \/ /\ saved' = cfg
          /\ atSaved' = [valid |-> TRUE, cfg |-> cfg, files |-> files]
          /\ pc' = "prepare"
          /\ UNCHANGED << result, err >>
       \/ /\ Raise("SaveFailure")
          /\ UNCHANGED << saved, atSaved >>
    /\ UNCHANGED << platform, cfg, files, reverter, achalls, locals, runs >>

\* perform(): self.configurator.prepare_server_https(str(dvsni_port), True)
perform_prepare_server_https ==
    /\ pc = "prepare"
    /\ calls' = Append(calls, Call("prepare_server_https", 0,
                                   str(dvsni_port).digits, TRUE))
    /\ \/ /\ cfg' = [cfg EXCEPT !.https = TRUE]
          /\ pc' = "certs"
          /\ idx' = 1
          /\ UNCHANGED << result, err >>
       \/ /\ Raise("ServerModeSwitchFailure")
          /\ cfg' \in { cfg, [cfg EXCEPT !.https = TRUE] }
          /\ UNCHANGED idx
    /\ UNCHANGED << platform, saved, files, reverter, achalls, responses,
                    dvsni_addrs, achall_addrs, config_text, sni_arg, atSaved,
                    runs >>

\* Dvsni._setup_challenge_cert(achall): register the key and the certificate
\* file with the reverter, write them, return the response
_setup_challenge_cert(achall) ==
    /\ journal' = journal \cup {get_key_path(achall), get_cert_path(achall)}
    /\ files' = [files EXCEPT
                   ![get_key_path(achall)] = File(<< Txt(get_key_path(achall)) >>),
                   ![get_cert_path(achall)] = File(<< Txt(get_cert_path(achall)) >>)]

\* perform(): for achall in self.achalls:
\*                responses.append(self._setup_challenge_cert(achall))
perform_setup_challenge_cert ==
    /\ pc = "certs"
    /\ idx <= Len(achalls)
    /\ calls' = Append(calls, Call("_setup_challenge_cert", idx, "", FALSE))
    /\ \/ /\ _setup_challenge_cert(achalls[idx])
          /\ responses' = responses_append(responses, Response(achalls[idx]))
          /\ idx' = idx + 1
          /\ UNCHANGED << pc, result, err >>
       \/ /\ Raise("CredentialGenerationFailure")
          /\ \/ UNCHANGED << journal, files >>
             \/ /\ journal' = journal \cup { get_key_path(achalls[idx]),
                                             get_cert_path(achalls[idx]) }
                /\ files' = [files EXCEPT
                               ![get_cert_path(achalls[idx])] = File(<<>>)]
          /\ UNCHANGED << responses, idx >>
    /\ UNCHANGED << platform, config, checkpoints, achalls, dvsni_addrs,
                    achall_addrs, config_text, sni_arg, atSaved, runs >>

\* a _mod_config() that registers the fragment file before its loop
_mod_config_enter_registering ==
    /\ pc = "certs"
    /\ idx > Len(achalls)
    /\ pc' = "mod_config"
    /\ idx' = 1
    /\ dvsni_addrs' = {}
    /\ achall_addrs' = <<>>
    /\ config_text' = open_guard
    /\ journal' = journal \cup {challenge_conf}
    /\ calls' = Append(calls,
                       Call("register_file_creation", 0, challenge_conf, TRUE))
    /\ UNCHANGED << platform, config, files, checkpoints, achalls, responses,
                    result, err, sni_arg, atSaved, runs >>

\* a _mod_config() that makes the include check before its loop
_mod_config_enter_including ==
    /\ pc = "certs"
    /\ idx > Len(achalls)
    /\ pc' = "mod_config"
    /\ idx' = 1
    /\ dvsni_addrs' = {}
    /\ achall_addrs' = <<>>
    /\ config_text' = open_guard
    /\ cfg' = [cfg EXCEPT !.dirs =
                  IF include_absent(cfg.dirs)
                  THEN add_dir(cfg.dirs, main_config, "Include", challenge_conf)
                  ELSE cfg.dirs]
    /\ UNCHANGED << platform, saved, files, reverter, achalls, responses,
                    result, err, calls, sni_arg, atSaved, runs >>

\* _mod_config(): dvsni_addrs = set(); config_text = "<IfModule mod_ssl.c>\n"
_mod_config_enter ==
    /\ pc = "certs"
    /\ idx > Len(achalls)
    /\ pc' = "mod_config"
    /\ idx' = 1
    /\ dvsni_addrs' = {}
    /\ achall_addrs' = <<>>
    /\ config_text' = open_guard
    /\ UNCHANGED << platform, config, files, reverter, achalls, responses,
                    result, err, calls, sni_arg, atSaved, runs >>

\* _mod_config(): for achall in self.achalls:
\*     achall_addrs = self.get_dvsni_addrs(achall)
\*     dvsni_addrs.update(achall_addrs)
\*     config_text += self._get_config_text(achall, achall_addrs)
_mod_config_loop ==
    /\ pc = "mod_config"
    /\ idx <= Len(achalls)
    /\ calls' = Append(calls, Call("choose_vhost", idx, achalls[idx].domain, FALSE))
    /\ LET vhost == choose_vhost(achalls[idx].domain)
           addrs == get_dvsni_addrs(vhost)
       IN IF vhost.found
          THEN /\ dvsni_addrs' = update(dvsni_addrs, addrs)
               /\ achall_addrs' = Append(achall_addrs, addrs)
               /\ \E o \in Orders(addrs) :
                     config_text' = config_text
                                    \o _get_config_text(achalls[idx], o, linesep)
               /\ idx' = idx + 1
               /\ UNCHANGED << pc, result, err >>
          ELSE /\ Raise("NoTargetServer")
               /\ UNCHANGED << dvsni_addrs, achall_addrs, config_text, idx >>
    /\ UNCHANGED << platform, config, files, reverter, achalls, responses,
                    sni_arg, atSaved, runs >>

\* ApacheDvsni._conf_include_check(main_config), after
\* _mod_config(): config_text += "</IfModule>\n"
_conf_include_check ==
    /\ pc = "mod_config"
    /\ idx > Len(achalls)
    /\ config_text' = config_text \o close_guard
    /\ \/ /\ IF include_absent(cfg.dirs)
             THEN /\ cfg' = [cfg EXCEPT !.dirs =
                               add_dir(cfg.dirs, main_config, "Include",
                                       challenge_conf)]
                  /\ calls' = calls \o
                       << Call("find_dir", 0, challenge_conf, FALSE),
                          Call("add_dir", 0, challenge_conf, FALSE) >>
             ELSE /\ cfg' = cfg
                  /\ calls' = Append(calls,
                                     Call("find_dir", 0, challenge_conf, FALSE))
          /\ pc' = "register"
          /\ UNCHANGED << result, err >>
       \/ /\ Raise("ConfigWriteFailure")
          /\ calls' = Append(calls, Call("find_dir", 0, challenge_conf, FALSE))
          /\ UNCHANGED cfg
    /\ UNCHANGED << platform, saved, files, reverter, achalls, idx, responses,
                    dvsni_addrs, achall_addrs, sni_arg, atSaved, runs >>

\* a _mod_config() that goes on to the write without the registration
_mod_config_register_skipped ==
    /\ pc = "register"
    /\ pc' = "write"
    /\ UNCHANGED << platform, config, files, reverter, achalls, locals, result,
                    err, calls, atSaved, runs >>

\* a registration that names the main configuration file
registered_path_main == main_config

\* _mod_config(): the path handed to register_file_creation
registered_path == challenge_conf

\* _mod_config(): reverter.register_file_creation(True, self.challenge_conf)
_mod_config_register ==
    /\ pc = "register"
    /\ calls' = Append(calls,
                       Call("register_file_creation", 0, registered_path, TRUE))
    /\ \/ /\ journal' = journal \cup {registered_path}
          /\ pc' = "write"
          /\ UNCHANGED << result, err >>
       \/ /\ Raise("ConfigWriteFailure")
          /\ UNCHANGED journal
    /\ UNCHANGED << platform, config, files, checkpoints, achalls, locals,
                    atSaved, runs >>

\* a fragment file opened with "a": the text is added to what it holds
open_a_write(old, text, sep) == File(old.text \o TextWrite(text, sep))

\* open(self.challenge_conf, "w") and write(text): what the file then holds
open_w_write(old, text, sep) == File(TextWrite(text, sep))

\* _mod_config(): with open(self.challenge_conf, "w") as new_conf:
\*                    new_conf.write(config_text)
_mod_config_write ==
    /\ pc = "write"
    /\ calls' = Append(calls, Call("open_write", 0, challenge_conf, FALSE))
    /\ \/ /\ files' = [files EXCEPT ![challenge_conf] =
                         open_w_write(files[challenge_conf], config_text,
                                      linesep)]
          /\ pc' = "sni_ready"
          /\ UNCHANGED << result, err >>
       \/ /\ Raise("ConfigWriteFailure")
          /\ files' \in { files, [files EXCEPT ![challenge_conf] = File(<<>>)] }
    /\ UNCHANGED << platform, config, reverter, achalls, locals, atSaved, runs >>

\* perform(): self.configurator.make_addrs_sni_ready(dvsni_addrs)
perform_make_addrs_sni_ready ==
    /\ pc = "sni_ready"
    /\ calls' = Append(calls, Call("make_addrs_sni_ready", 0, "", FALSE))
    /\ sni_arg' = dvsni_addrs
    /\ \/ /\ cfg' = [cfg EXCEPT !.sni = cfg.sni \cup dvsni_addrs]
          /\ pc' = "commit"
          /\ UNCHANGED << result, err >>
       \/ /\ Raise("ServerModeSwitchFailure")
          /\ cfg' \in { cfg, [cfg EXCEPT !.sni = cfg.sni \cup dvsni_addrs] }
    /\ UNCHANGED << platform, saved, files, reverter, achalls, idx, responses,
                    dvsni_addrs, achall_addrs, config_text, atSaved, runs >>

\* a save() without title and flag
save_plain == Call("save", 0, "", FALSE)

\* perform(): the call self.configurator.save("SNI Challenge", True)
save_sni_challenge == Call("save", 0, "SNI Challenge", TRUE)

\* perform(): self.configurator.save("SNI Challenge", True); return responses
perform_save_sni_challenge ==
    /\ pc = "commit"
    /\ \/ /\ calls' = Append(calls, save_sni_challenge)
          /\ saved' = cfg
          /\ checkpoints' = Append(checkpoints,
                [title |-> save_sni_challenge.s,
                 temporary |-> save_sni_challenge.flag])
          /\ journal' = {}
          /\ pc' = "done"
          /\ result' = Returned(responses)
          /\ UNCHANGED err
       \/ /\ Raise("SaveFailure")
          /\ UNCHANGED << calls, saved, reverter >>
    /\ UNCHANGED << platform, cfg, files, achalls, locals, atSaved, runs >>

\* what the caller's rollback leaves: the saved configuration, and none of
\* the files registered as created
RolledBack ==
    [cfg |-> saved,
     files |-> [p \in Paths |-> IF p \in journal THEN NoFile ELSE files[p]]]

\* the caller of a failed perform() rolls the configuration back
rollback ==
    /\ pc = "failed"
    /\ cfg' = RolledBack.cfg
    /\ files' = RolledBack.files
    /\ journal' = {}
    /\ pc' = "idle"
    /\ UNCHANGED << platform, saved, checkpoints, achalls, locals, result, err,
                    calls, atSaved, runs >>

Next ==
    \/ __init__
    \/ perform_empty
    \/ perform_save
    \/ perform_prepare_server_https
    \/ perform_setup_challenge_cert
    \/ _mod_config_enter
    \/ _mod_config_loop
    \/ _conf_include_check
    \/ _mod_config_register
    \/ _mod_config_write
    \/ perform_make_addrs_sni_ready
    \/ perform_save_sni_challenge
    \/ rollback

Spec == Init /\ [][Next]_vars

\* a step of perform(): every call it makes returns or raises
Step ==
    \/ perform_empty
    \/ perform_save
    \/ perform_prepare_server_https
    \/ perform_setup_challenge_cert
    \/ _mod_config_enter
    \/ _mod_config_loop
    \/ _conf_include_check
    \/ _mod_config_register
    \/ _mod_config_write
    \/ perform_make_addrs_sni_ready
    \/ perform_save_sni_challenge

\* perform() is synchronous: once called it runs on until it returns or
\* raises; when the caller starts a run or rolls back is up to the caller
FairSpec == Spec /\ WF_vars(Step)

\* ------------------------------------------------------------ properties
Ops(cs) == [n \in 1..Len(cs) |-> cs[n].op]
Called(op) == \E n \in 1..Len(calls) : calls[n].op = op
CalledAt(op, i) == \E n \in 1..Len(calls) : calls[n].op = op /\ calls[n].n = i
Committed == \E n \in 1..Len(calls) :
                calls[n] = Call("save", 0, "SNI Challenge", TRUE)

\* C1: a run on a non-empty batch that returns gives a list as long as the
\* batch whose i-th element is the response built from the i-th challenge:
\* its SNI name is the one derived from that challenge's token and key.
ThmC1 ==
    (pc = "done" /\ achalls # <<>>) =>
        /\ result.returned
        /\ Len(result.list) = Len(achalls)
        /\ \A i \in 1..Len(achalls) :
              /\ result.list[i].z_domain
                    = ZDomain(achalls[i].token, achalls[i].account_key)
              /\ result.list[i].cert = get_cert_path(achalls[i])
              /\ result.list[i].key = get_key_path(achalls[i])

WitC1 ==
    /\ pc = "done"
    /\ Len(achalls) = 2
    /\ result.returned
    /\ Len(result.list) = 2
    /\ result.list[1] # result.list[2]

\* C2: on an empty batch perform() returns the empty list in one step that
\* makes no collaborator call and leaves the live and saved configuration,
\* the files and the reverter as they were.
ThmC2 ==
    [][ (pc = "perform" /\ achalls = <<>>) =>
           /\ pc' = "done"
           /\ result' = Returned(<<>>)
           /\ calls = <<>> /\ calls' = <<>>
           /\ UNCHANGED << cfg, saved, files, journal, checkpoints >> ]_vars

WitC2 ==
    /\ pc = "done"
    /\ achalls = <<>>
    /\ result = Returned(<<>>)
    /\ calls = <<>>

\* C3 as stated: when the virtual-host lookup fails, none of the pre-run
\* save, the HTTPS mode switch, the certificate generation, the include
\* addition, the fragment registration or the fragment write has happened.
CexC3 ==
    (err = "NoTargetServer") =>
        /\ ~Called("save")
        /\ ~Called("prepare_server_https")
        /\ ~Called("_setup_challenge_cert")
        /\ ~Called("add_dir")
        /\ ~Called("register_file_creation")
        /\ ~Called("open_write")

\* C3 amended: when the virtual-host lookup fails, none of the include
\* search or addition, the fragment registration or the fragment write has
\* happened; the pre-run save, the HTTPS mode switch and the certificate
\* generation of every challenge of the batch have.
ThmC3 ==
    (err = "NoTargetServer") =>
        /\ ~Called("find_dir")
        /\ ~Called("add_dir")
        /\ ~Called("register_file_creation")
        /\ ~Called("open_write")
        /\ Called("save")
        /\ Called("prepare_server_https")
        /\ \A i \in 1..Len(achalls) : CalledAt("_setup_challenge_cert", i)

WitC3 ==
    /\ pc = "failed"
    /\ err = "NoTargetServer"
    /\ Len(achalls) = 2
    /\ achalls[2].domain = "x.example"
    /\ Len(achall_addrs) = 1

\* the state when save() returned
SavedState == [cfg |-> atSaved.cfg, files |-> atSaved.files]

\* C4 as stated: after a failure past the initial save, the caller's
\* rollback restores exactly the configuration and files of the Saved state.
CexC4 ==
    (pc = "failed" /\ atSaved.valid) => RolledBack = SavedState

\* C4 amended: after a failure past the initial save, every file the run has
\* changed is registered as created in the rollback journal and no change
\* of the run to the configuration has been saved; a rollback that discards
\* the unsaved edits and deletes the registered files restores exactly the
\* Saved state when none of the registered files existed at the Saved state.
ThmC4 ==
    (pc = "failed" /\ atSaved.valid) =>
        /\ \A p \in Paths : files[p] # atSaved.files[p] => p \in journal
        /\ saved = atSaved.cfg
        /\ (\A p \in journal : ~atSaved.files[p].exists)
              => RolledBack = SavedState

WitC4 ==
    /\ pc = "failed"
    /\ atSaved.valid
    /\ err = "ServerModeSwitchFailure"
    /\ files[challenge_conf].exists
    /\ files[challenge_conf] # atSaved.files[challenge_conf]
    /\ cfg # atSaved.cfg
    /\ RolledBack = SavedState

\* C5: a run ends in one of two ways: it returns a list with one entry per
\* challenge, or it raises and returns nothing; a run that raised has not
\* made the commit named "SNI Challenge".
ThmC5 ==
    /\ pc = "done" => (result.returned /\ err = "none"
                       /\ Len(result.list) = Len(achalls))
    /\ pc = "failed" => err # "none"
    /\ err # "none" => (~result.returned /\ ~Committed /\ pc \in {"failed", "idle"})
    /\ result.returned => (pc = "done" /\ err = "none")

WitC5 ==
    /\ pc = "failed"
    /\ err = "CredentialGenerationFailure"
    /\ Len(responses) = 1
    /\ Len(achalls) = 2
    /\ ~result.returned

ExpectedOps(n, added) ==
    << "save", "prepare_server_https" >>
    \o [i \in 1..n |-> "_setup_challenge_cert"]
    \o [i \in 1..n |-> "choose_vhost"]
    \o << "find_dir" >>
    \o (IF added THEN << "add_dir" >> ELSE <<>>)
    \o << "register_file_creation", "open_write", "make_addrs_sni_ready",
          "save" >>

\* C6: a successful run on a non-empty batch makes its collaborator calls in
\* this order: save, HTTPS mode switch at the challenge port, certificate
\* generation for every challenge in input order, virtual-host lookup for
\* every challenge in input order, include search (and addition when nothing
\* was found), registration of the fragment file, its write, the SNI-ready
\* switch, the commit named "SNI Challenge"; each but the per-challenge calls
\* happens once and the commit is the last.
ThmC6 ==
    (pc = "done" /\ achalls # <<>>) =>
        LET n == Len(achalls) IN
        /\ \E added \in BOOLEAN : Ops(calls) = ExpectedOps(n, added)
        /\ calls[1] = Call("save", 0, "", FALSE)
        /\ calls[2] = Call("prepare_server_https", 0, "5001", TRUE)
        /\ \A i \in 1..n : calls[2 + i].n = i /\ calls[2 + n + i].n = i
        /\ calls[Len(calls)] = Call("save", 0, "SNI Challenge", TRUE)

WitC6 ==
    /\ pc = "done"
    /\ Len(achalls) = 2
    /\ Called("add_dir")
    /\ Len(calls) = 12

\* the Include directives for the fragment's path, in any letter case
IncludeCount(dirs) ==
    Cardinality({ n \in 1..Len(dirs) :
                    /\ dirs[n].name \in {"Include", "include", "INCLUDE"}
                    /\ dirs[n].arg = challenge_conf })

\* C7: whatever number of runs and include checks, the live and the saved
\* configuration hold at most one Include directive for the fragment's path,
\* and a run whose check added one found none at its start.
ThmC7 ==
    /\ IncludeCount(cfg.dirs) <= 1
    /\ IncludeCount(saved.dirs) <= 1
    /\ (atSaved.valid /\ Called("add_dir"))
          => IncludeCount(atSaved.cfg.dirs) = 0

WitC7 ==
    /\ runs = 2
    /\ pc = "done"
    /\ achalls # <<>>
    /\ Called("find_dir")
    /\ ~Called("add_dir")
    /\ cfg.dirs = << Dir(main_config, "Include", challenge_conf) >>
    /\ Len(checkpoints) = 2

\* toChallengeAddress as text: host and port of the challenge endpoint
ChallengePortText == "5001"
ToChallengeText(a) ==
    IF a.host = "_default_" THEN [host |-> "*", digits |-> ChallengePortText]
    ELSE [host |-> a.host, digits |-> ChallengePortText]
ImageOf(achall) ==
    { ToChallengeText(a) : a \in choose_vhost(achall.domain).addrs }

\* C8: the address set computed for a challenge is the image of its virtual
\* server's addresses: a "_default_" address gives "*" at the challenge
\* port, any other address its own host at the challenge port; every
\* element has the challenge port and the set has one element per image.
ThmC8 ==
    \A i \in 1..Len(achall_addrs) :
        /\ { AddrStr(a) : a \in achall_addrs[i] } = ImageOf(achalls[i])
        /\ Cardinality(achall_addrs[i]) = Cardinality(ImageOf(achalls[i]))
        /\ \A a \in achall_addrs[i] : a.port.digits = ChallengePortText
        /\ \A a \in achall_addrs[i] : a.host # "_default_"

WitC8 ==
    /\ Len(achall_addrs) >= 1
    /\ achalls[1].domain = "c.example"
    /\ Cardinality(choose_vhost("c.example").addrs) = 3
    /\ { AddrStr(a) : a \in achall_addrs[1] }
          = { [host |-> "10.0.0.1", digits |-> "5001"],
              [host |-> "*", digits |-> "5001"] }

\* the virtual-host blocks of a text: its address lists, in order
AddrLists(text) == SelectSeq(text, LAMBDA t : t.k = "addrs")

\* C9: the set handed to make_addrs_sni_ready is the union of the address
\* sets of all challenges of the batch, with no other element and each
\* shared address once.
ThmC9 ==
    Called("make_addrs_sni_ready") =>
        /\ sni_arg = UNION { achall_addrs[i] : i \in 1..Len(achall_addrs) }
        /\ Len(achall_addrs) = Len(achalls)
        /\ { AddrStr(a) : a \in sni_arg }
              = UNION { ImageOf(achalls[i]) : i \in 1..Len(achalls) }
        /\ Cardinality(sni_arg)
              = Cardinality(UNION { ImageOf(achalls[i]) : i \in 1..Len(achalls) })

WitC9 ==
    /\ Called("make_addrs_sni_ready")
    /\ Len(achalls) = 2
    /\ achalls[1].domain = "a.example"
    /\ achalls[2].domain = "b.example"
    /\ Cardinality(sni_arg) = 1
    /\ Len(AddrLists(files[challenge_conf].text)) = 2

\* a text without its line terminators
Body(text) == SelectSeq(text, LAMBDA t : t.k \notin {"LF", "CR"})

\* the tokens of one virtual-host block that are not line terminators
BlockLen == Len(Body(VHOST_TEMPLATE))

\* the set of the addresses a block lists
Listed(tok) == { tok.a[n] : n \in 1..Len(tok.a) }

\* C10: the fragment a run has written begins with the guard's open tag and
\* ends with its close tag; between them is one virtual-host block per
\* challenge, in input order, and nothing else; the i-th block lists the
\* address set of the i-th challenge.
ThmC10 ==
    (pc \in {"sni_ready", "commit", "done"} /\ achalls # <<>>) =>
        LET text == files[challenge_conf].text
            body == Body(text)
            n == Len(achalls)
        IN /\ text[1] = Txt("<IfModule mod_ssl.c>")
           /\ body[Len(body)] = Txt("</IfModule>")
           /\ text[Len(text)] = LF
           /\ Len(body) = 2 + BlockLen * n
           /\ Len(AddrLists(text)) = n
           /\ \A i \in 1..n :
                 LET first == 2 + BlockLen * (i - 1) IN
                 /\ body[first] = Txt("<VirtualHost ")
                 /\ body[first + 1].k = "addrs"
                 /\ Listed(body[first + 1]) = ImageOf(achalls[i])
                 /\ Len(body[first + 1].a) = Cardinality(ImageOf(achalls[i]))
                 /\ body[first + 2] = Txt(">")
                 /\ body[first + 3] = Txt("    ServerName ")
                 /\ body[first + 4]
                       = Txt(ZDomain(achalls[i].token, achalls[i].account_key))
                 /\ body[first + BlockLen - 1] = Txt("</VirtualHost>")
                 /\ \A m \in (first + 1)..(first + BlockLen - 2) :
                       body[m] \notin { Txt("<VirtualHost "),
                                        Txt("</VirtualHost>"),
                                        Txt("<IfModule mod_ssl.c>"),
                                        Txt("</IfModule>") }

WitC10 ==
    /\ pc = "done"
    /\ Len(achalls) = 2
    /\ achalls[1].domain = "c.example"
    /\ achalls[2].domain = "a.example"
    /\ Len(AddrLists(files[challenge_conf].text)) = 2
    /\ Len(AddrLists(files[challenge_conf].text)[1].a) = 2
    /\ Len(AddrLists(files[challenge_conf].text)[2].a) = 1

\* the server names of the virtual-host blocks of a text, in order
ServerNames(text) ==
    LET body == Body(text)
        at == { n \in 2..Len(body) : body[n - 1] = Txt("    ServerName ") }
    IN [k \in 1..Cardinality(at) |->
          body[CHOOSE n \in at : Cardinality({ m \in at : m <= n }) = k].s]

\* C11: after a successful run on a non-empty batch, whatever runs came
\* before it, the fragment file holds the blocks of this batch, in order,
\* and no other block: nothing of an earlier fragment is left in it.
ThmC11 ==
    (pc = "done" /\ achalls # <<>>) =>
        LET text == files[challenge_conf].text IN
        /\ files[challenge_conf].exists
        /\ ServerNames(text)
              = [i \in 1..Len(achalls) |->
                    ZDomain(achalls[i].token, achalls[i].account_key)]
        /\ Len(AddrLists(text)) = Len(achalls)
        /\ Len(SelectSeq(text, LAMBDA t : t = Txt("<IfModule mod_ssl.c>"))) = 1
        /\ Body(text) = Body(config_text)

WitC11 ==
    /\ pc = "done"
    /\ runs = 2
    /\ Len(checkpoints) = 2
    /\ achalls = << Chall("a.example", "T1") >>
    /\ files[get_cert_path(Chall("c.example", "T3"))].exists
    /\ files[get_cert_path(Chall("b.example", "T2"))].exists
    /\ ServerNames(files[challenge_conf].text) = << ZDomain("T1", "K1") >>

\* the challenges of the batch whose virtual server has no address
NoAddress(i) ==
    /\ choose_vhost(achalls[i].domain).found
    /\ choose_vhost(achalls[i].domain).addrs = {}

\* C12: a challenge whose virtual server has no address is no error: its
\* address set is empty, the lookup failure is only ever raised for a domain
\* without a server, and a run that returned has rendered its block with an
\* empty address list, has switched exactly the addresses of the other
\* challenges, has committed and has returned its response.
ThmC12 ==
    /\ \A i \in 1..Len(achall_addrs) : NoAddress(i) => achall_addrs[i] = {}
    /\ err = "NoTargetServer" => ~choose_vhost(achalls[idx].domain).found
    /\ (pc = "done" /\ achalls # <<>>) =>
          /\ Committed
          /\ { AddrStr(a) : a \in sni_arg }
                = UNION { ImageOf(achalls[j]) :
                            j \in { k \in 1..Len(achalls) : ~NoAddress(k) } }
          /\ \A i \in 1..Len(achalls) : NoAddress(i) =>
                /\ result.list[i] = Response(achalls[i])
                /\ AddrLists(files[challenge_conf].text)[i].a = <<>>

WitC12 ==
    /\ pc = "done"
    /\ achalls = << Chall("d.example", "T4"), Chall("a.example", "T1") >>
    /\ Committed
    /\ Cardinality(sni_arg) = 1
    /\ Len(result.list) = 2
    /\ AddrLists(files[challenge_conf].text)[1].a = <<>>

\* C13: once the fragment file has been opened for writing, in a run that
\* goes on as in one that failed, its creation was registered by an earlier
\* call of the run and, until the commit or the rollback, the rollback
\* journal names it.
ThmC13 ==
    Called("open_write") =>
        /\ \E m, n \in 1..Len(calls) :
              /\ m < n
              /\ calls[m] = Call("register_file_creation", 0, challenge_conf, TRUE)
              /\ calls[n].op = "open_write"
        /\ pc \in {"sni_ready", "commit", "failed"} => challenge_conf \in journal

WitC13 ==
    /\ pc = "failed"
    /\ err = "ConfigWriteFailure"
    /\ Called("open_write")
    /\ files[challenge_conf] = File(<<>>)
    /\ challenge_conf \in journal

\* a text whose line terminators are all the platform's: with "\n" no
\* carriage return at all, with "\r\n" every line feed after a carriage
\* return and every carriage return before a line feed
Native(text, sep) ==
    IF sep = << LF >>
    THEN \A n \in 1..Len(text) : text[n] # CR
    ELSE /\ \A n \in 1..Len(text) :
               text[n] = LF => (n > 1 /\ text[n - 1] = CR)
         /\ \A n \in 1..Len(text) :
               text[n] = CR => (n < Len(text) /\ text[n + 1] = LF)

\* C14: every line terminator of the fragment a run has written, those of
\* the guard lines included, is the platform's line terminator.
CexC14 ==
    (pc \in {"sni_ready", "commit", "done"} /\ achalls # <<>>) =>
        Native(files[challenge_conf].text, linesep)

\* C15: when the virtual-host lookup has failed, at whatever index, the
\* directives of the live configuration, the fragment file, the addresses
\* switched to SNI-ready and the rollback journal's entry for the fragment
\* are as they were when the run saved, and nothing was committed; and
\* whenever the include search has started, every lookup of the batch is
\* done.
ThmC15 ==
    /\ (pc = "failed" /\ err = "NoTargetServer") =>
          /\ atSaved.valid
          /\ cfg.dirs = atSaved.cfg.dirs
          /\ cfg.sni = atSaved.cfg.sni
          /\ sni_arg = {}
          /\ files[challenge_conf] = atSaved.files[challenge_conf]
          /\ challenge_conf \notin journal
          /\ saved = atSaved.cfg
          /\ ~Committed
    /\ Called("find_dir") =>
          /\ Len(achall_addrs) = Len(achalls)
          /\ \A i \in 1..Len(achalls) : CalledAt("choose_vhost", i)

WitC15 ==
    /\ pc = "failed"
    /\ err = "NoTargetServer"
    /\ runs = 2
    /\ idx = 2
    /\ files[challenge_conf].exists
    /\ files[challenge_conf].text # <<>>
    /\ IncludeCount(cfg.dirs) = 1

\* C16: in a run that returned, the i-th block of the fragment names the
\* SNI name, the certificate and the key of the i-th response, the two files
\* exist, and no block names those of another challenge of the batch.
ThmC16 ==
    (pc = "done" /\ achalls # <<>>) =>
        LET body == Body(files[challenge_conf].text)
            at(i) == 2 + BlockLen * (i - 1)
        IN \A i \in 1..Len(achalls) :
              /\ body[at(i) + 3] = Txt("    ServerName ")
              /\ body[at(i) + 4] = Txt(result.list[i].z_domain)
              /\ body[at(i) + 10] = Txt("    SSLCertificateFile ")
              /\ body[at(i) + 11] = Txt(result.list[i].cert)
              /\ body[at(i) + 12] = Txt("    SSLCertificateKeyFile ")
              /\ body[at(i) + 13] = Txt(result.list[i].key)
              /\ files[result.list[i].cert].exists
              /\ files[result.list[i].key].exists
              /\ \A j \in 1..Len(achalls) : j # i =>
                    /\ body[at(i) + 4] # Txt(result.list[j].z_domain)
                    /\ body[at(i) + 11] # Txt(result.list[j].cert)
                    /\ body[at(i) + 13] # Txt(result.list[j].key)

WitC16 ==
    /\ pc = "done"
    /\ achalls = << Chall("b.example", "T2"), Chall("c.example", "T3") >>
    /\ result.list = << Response(achalls[1]), Response(achalls[2]) >>
    /\ ServerNames(files[challenge_conf].text)
          = << ZDomain("T2", "K1"), ZDomain("T3", "K1") >>

\* how far perform() has come: the statement it is at, then the loop index
Rank(p) ==
    CASE p = "perform" -> 1
      [] p = "prepare" -> 2
      [] p = "certs" -> 3
      [] p = "mod_config" -> 4
      [] p = "register" -> 5
      [] p = "write" -> 6
      [] p = "sni_ready" -> 7
      [] p = "commit" -> 8
      [] OTHER -> 9

Running == pc \notin {"idle", "done", "failed"}

\* C17: a run of perform() ends: it comes to the return or to a raised
\* error; on its way every step takes it to a later statement or a later
\* loop index, never back; and it ends in failure only when a call raised,
\* otherwise committed.
ThmC17 ==
    /\ (pc = "perform") ~> (pc \in {"done", "failed"})
    /\ [][ Running =>
             \/ Rank(pc') > Rank(pc)
             \/ (Rank(pc') = Rank(pc) /\ idx' > idx /\ idx' <= Len(achalls) + 1) ]_vars
    /\ [](pc = "failed" => err # "none")
    /\ []((pc = "done" /\ achalls # <<>>) => (err = "none" /\ Committed))

WitC17 ==
    /\ pc = "failed"
    /\ err = "SaveFailure"
    /\ Called("make_addrs_sni_ready")
    /\ Len(achalls) = 2
    /\ idx = 3

====
